---- MODULE Spec2Model ----
(***************************************************************************)
(* Model of discrete-time-fourier-transform.py: the function               *)
(* discrete_time_fourier_transform (lines 14-48) and the part of the       *)
(* script body that calls it and normalises its result (lines 56-69).      *)
(*                                                                         *)
(* Numbers are exact.  An angle is a rational multiple of pi.  A complex   *)
(* number built from exp(j*pi*q/D), D = n_points - 1, is an element of the *)
(* cyclotomic ring Z[zeta], zeta = exp(j*pi/D), kept in its normal form    *)
(* (the remainder modulo the cyclotomic polynomial), so that equality of   *)
(* two representations is equality of the two numbers.  A squared          *)
(* magnitude is an element of Q(sqrt r), which holds cos(pi*q/D) for every *)
(* D up to 6.  Floating-point rounding is not modelled.                    *)
(***************************************************************************)
EXTENDS Integers, Sequences, FiniteSets, TLC

(***************************************************************************)
(* Bounds of the model.                                                    *)
(***************************************************************************)
\* n_points, which line 38 sets to 1000, is scaled down: it ranges over
\* 2..MaxPoints, one value per behaviour
MaxPoints == 5
\* the input sequence has 0..MaxLen samples
MaxLen == 4
\* the caller calls the transform at most MaxCalls times
MaxCalls == 2
\* operand length of the three-call linearity scenario
LinLen == 2

\* sample values of the input sequence (the script asks for -1 <= x <= 1)
Samples == {-1, 0, 1}
\* operand samples and scalars of the linearity scenario
LinSamples == {0, 1}
Scalars == {-1, 2}

None == "None"
\* a name not bound to an array yet
Unbound == 0

(***************************************************************************)
(* Integers and angles (rational multiples of pi).                         *)
(***************************************************************************)
IAbs(x) == IF x < 0 THEN -x ELSE x

RECURSIVE Gcd(_, _)
Gcd(a, b) == IF b = 0 THEN a ELSE Gcd(b, a % b)

RECURSIVE SumSeq(_)
SumSeq(s) == IF s = <<>> THEN 0 ELSE s[1] + SumSeq(Tail(s))

\* the angle pi*n/d in lowest terms, d > 0
Rat(n, d) ==
    LET g == Gcd(IAbs(n), IAbs(d))
        s == IF d < 0 THEN -1 ELSE 1
    IN  [n |-> (s * n) \div g, d |-> (s * d) \div g]

RatAdd(x, y) == Rat(x.n * y.d + y.n * x.d, x.d * y.d)
RatSub(x, y) == Rat(x.n * y.d - y.n * x.d, x.d * y.d)
RatScale(c, x) == Rat(c * x.n, x.d)
RatDivInt(x, c) == Rat(x.n, x.d * c)
RatNeg(x) == Rat(-x.n, x.d)
RatLess(x, y) == x.n * y.d < y.n * x.d

\* np.pi, in units of pi
Pi == Rat(1, 1)

(***************************************************************************)
(* The cyclotomic ring Z[zeta], zeta = exp(j*pi/D).                        *)
(***************************************************************************)
\* the cyclotomic polynomial of order 2D, lowest coefficient first
CycloPoly(D) ==
    CASE D = 1 -> <<1, 1>>
      [] D = 2 -> <<1, 0, 1>>
      [] D = 3 -> <<1, -1, 1>>
      [] D = 4 -> <<1, 0, 0, 0, 1>>
      [] D = 5 -> <<1, -1, 1, -1, 1>>
      [] D = 6 -> <<1, 0, -1, 0, 1>>

CycDim(D) == Len(CycloPoly(D)) - 1

\* the remainder of polynomial v modulo the monic polynomial P
RECURSIVE PolyRem(_, _)
PolyRem(v, P) ==
    LET t == Len(v)
        p == Len(P) - 1
    IN  IF t <= p
        THEN [i \in 1..p |-> IF i <= t THEN v[i] ELSE 0]
        ELSE LET c == v[t]
                 shift == t - Len(P)
             IN  PolyRem([i \in 1..(t - 1) |->
                            IF i > shift THEN v[i] - c * P[i - shift] ELSE v[i]], P)

CycInt(c, D) == [i \in 1..CycDim(D) |-> IF i = 1 THEN c ELSE 0]
\* zeta^e, e >= 0
CycUnit(e, D) == PolyRem([i \in 1..(e + 1) |-> IF i = e + 1 THEN 1 ELSE 0], CycloPoly(D))
CycAdd(u, v) == [i \in DOMAIN u |-> u[i] + v[i]]
CycMul(u, v, D) ==
    LET p == Len(u)
    IN  PolyRem([i \in 1..(2 * p - 1) |->
                   SumSeq([a \in 1..p |-> IF i + 1 - a \in 1..p
                                          THEN u[a] * v[i + 1 - a] ELSE 0])],
                CycloPoly(D))
\* the complex conjugate: zeta^e |-> zeta^(2D - e)
CycConj(u, D) ==
    LET p == Len(u)
        terms == [a \in 1..p |-> [i \in 1..CycDim(D) |->
                    u[a] * CycUnit((2 * D - (a - 1)) % (2 * D), D)[i]]]
    IN  [i \in 1..CycDim(D) |-> SumSeq([a \in 1..p |-> terms[a][i]])]

(***************************************************************************)
(* The real field Q(sqrt r): [a, b, k] is (a + b*sqrt r)/k, k > 0, in      *)
(* lowest terms.                                                           *)
(***************************************************************************)
Radicand(D) ==
    CASE D = 5 -> 5
      [] D = 6 -> 3
      [] OTHER -> 2

Quad(a, b, k) ==
    LET g == Gcd(Gcd(IAbs(a), IAbs(b)), IAbs(k))
        s == IF k < 0 THEN -1 ELSE 1
    IN  [a |-> (s * a) \div g, b |-> (s * b) \div g, k |-> (s * k) \div g]

QZero == Quad(0, 0, 1)
QOne == Quad(1, 0, 1)
QAdd(x, y) == Quad(x.a * y.k + y.a * x.k, x.b * y.k + y.b * x.k, x.k * y.k)
QSub(x, y) == Quad(x.a * y.k - y.a * x.k, x.b * y.k - y.b * x.k, x.k * y.k)
QMul(x, y, r) == Quad(x.a * y.a + r * x.b * y.b, x.a * y.b + x.b * y.a, x.k * y.k)
\* x / y, y # 0
QDiv(x, y, r) ==
    LET n == y.a * y.a - r * y.b * y.b
    IN  QMul(x, Quad(y.k * y.a, -(y.k * y.b), n), r)
\* the sign of a + b*sqrt r
QSign(x, r) ==
    LET sa == IF x.a > 0 THEN 1 ELSE IF x.a < 0 THEN -1 ELSE 0
        sb == IF x.b > 0 THEN 1 ELSE IF x.b < 0 THEN -1 ELSE 0
        a2 == x.a * x.a
        b2 == r * x.b * x.b
    IN  IF sa >= 0 /\ sb >= 0 THEN (IF sa + sb > 0 THEN 1 ELSE 0)
        ELSE IF sa <= 0 /\ sb <= 0 THEN -1
        ELSE IF sa > 0 THEN (IF a2 > b2 THEN 1 ELSE IF a2 < b2 THEN -1 ELSE 0)
        ELSE (IF b2 > a2 THEN 1 ELSE IF b2 < a2 THEN -1 ELSE 0)
QLeq(x, y, r) == QSign(QSub(y, x), r) >= 0

\* cos(pi*q/D) for 0 <= 2q <= D
CosBase(q, D) ==
    CASE q = 0 -> Quad(1, 0, 1)
      [] 2 * q = D -> Quad(0, 0, 1)
      [] D = 3 /\ q = 1 -> Quad(1, 0, 2)
      [] D = 4 /\ q = 1 -> Quad(0, 1, 2)
      [] D = 5 /\ q = 1 -> Quad(1, 1, 4)
      [] D = 5 /\ q = 2 -> Quad(-1, 1, 4)
      [] D = 6 /\ q = 1 -> Quad(0, 1, 2)
      [] D = 6 /\ q = 2 -> Quad(1, 0, 2)
\* cos(pi*q/D) for any integer q
Cos(q, D) ==
    LET m == q % (2 * D)
        h == IF m > D THEN 2 * D - m ELSE m
    IN  IF 2 * h <= D THEN CosBase(h, D)
        ELSE QSub(QZero, CosBase(D - h, D))

RECURSIVE QSumSeq(_)
QSumSeq(s) == IF s = <<>> THEN QZero ELSE QAdd(s[1], QSumSeq(Tail(s)))

\* |u|^2 = sum over e, f of u[e]*u[f]*cos(pi*(e - f)/D)
CycAbsSq(u, D) ==
    LET p == Len(u)
    IN  QSumSeq([i \in 1..(p * p) |->
            LET e == (i - 1) \div p
                f == (i - 1) % p
            IN  QMul(Quad(u[e + 1] * u[f + 1], 0, 1), Cos(e - f, D), Radicand(D))])

(***************************************************************************)
(* Array elements: [num, den] is the complex number num/sqrt(den), num in  *)
(* Z[zeta] and den in Q(sqrt r); NaN (0/0) is the IEEE not-a-number.  An array   *)
(* divided through by one scalar keeps one den in all its elements.        *)
(***************************************************************************)
NaN == [num |-> <<>>, den |-> QZero]
IsNaN(u) == u.den = QZero
\* the square of a NaN magnitude
QNaN == [a |-> 0, b |-> 0, k |-> 0]

NumInt(c, D) == [num |-> CycInt(c, D), den |-> QOne]
NumMul(u, v, D) ==
    IF IsNaN(u) \/ IsNaN(v) THEN NaN
    ELSE [num |-> CycMul(u.num, v.num, D), den |-> QMul(u.den, v.den, Radicand(D))]
NumAdd(u, v) ==
    IF IsNaN(u) \/ IsNaN(v) THEN NaN
    ELSE [num |-> CycAdd(u.num, v.num), den |-> u.den]
NumConj(u, D) ==
    IF IsNaN(u) THEN NaN ELSE [num |-> CycConj(u.num, D), den |-> u.den]

RECURSIVE NumSum(_, _)
NumSum(s, D) ==
    IF s = <<>> THEN NumInt(0, D)
    ELSE IF Len(s) = 1 THEN s[1]
    ELSE NumAdd(s[1], NumSum(Tail(s), D))

\* np.abs of one element, as the square of the magnitude
AbsSq(u, D) ==
    IF IsNaN(u) THEN QNaN ELSE QDiv(CycAbsSq(u.num, D), u.den, Radicand(D))

(***************************************************************************)
(* numpy, as discrete_time_fourier_transform uses it.                      *)
(***************************************************************************)
\* np.linspace with the offset forgotten: k*step, the last sample set to stop
LinspaceNoStart(start, stop, num) ==
    IF num = 1 THEN <<start>>
    ELSE LET step == RatDivInt(RatSub(stop, start), num - 1)
         IN  [k \in 1..num |-> IF k = num THEN stop ELSE RatScale(k - 1, step)]

\* np.linspace(start, stop, num): start + k*step, the last sample set to stop
Linspace(start, stop, num) ==
    IF num = 1 THEN <<start>>
    ELSE LET step == RatDivInt(RatSub(stop, start), num - 1)
         IN  [k \in 1..num |-> IF k = num THEN stop
                               ELSE RatAdd(start, RatScale(k - 1, step))]

\* np.exp(1j * theta), theta = pi*q/D
ExpJ(theta, D) ==
    [num |-> CycUnit((theta.n * (D \div theta.d)) % (2 * D), D), den |-> QOne]

\* the returned grid one sample short
OmegaGridShort(n) == Linspace(RatNeg(Pi), Pi, n - 1)

\* line 39: omega = np.linspace(-np.pi, np.pi, n_points)
OmegaGrid(n) == Linspace(RatNeg(Pi), Pi, n)

\* the comprehension's grid with its ends swapped, and over [0, pi] only
TwiddleGridReversed(n) == Linspace(Pi, RatNeg(Pi), n)
TwiddleGridHalf(n) == Linspace(Rat(0, 1), Pi, n)

\* line 45: the grid the comprehension iterates over, a second linspace call
TwiddleGrid(n) == Linspace(RatNeg(Pi), Pi, n)

\* the row with n running over 1..len(sequence)
TwiddleRowFromOne(w, M, D) == [m \in 1..M |-> ExpJ(RatNeg(RatScale(m, w)), D)]

\* line 45: one row [np.exp(-1j * omega * n) for n in range(len(sequence))]
TwiddleRow(w, M, D) == [m \in 1..M |-> ExpJ(RatNeg(RatScale(m - 1, w)), D)]

\* line 45: the twiddle factor matrix, one row per sample of the grid
twiddle(M, n) ==
    LET grid == TwiddleGrid(n)
    IN  [k \in 1..Len(grid) |-> TwiddleRow(grid[k], M, n - 1)]

\* the magnitudes of the (real) samples in place of the samples
AsArrayAbs(seq) ==
    [i \in 1..Len(seq) |-> [num |-> [e \in 1..Len(seq[i].num) |-> IAbs(seq[i].num[e])],
                            den |-> seq[i].den]]

\* line 46: np.array(time_domain_sequence), a new array of the same samples
AsArray(seq) == seq

\* line 46: the matrix-vector product W @ x
MatVec(W, x, D) ==
    [k \in 1..Len(W) |-> NumSum([m \in 1..Len(x) |-> NumMul(W[k][m], x[m], D)], D)]

\* lines 38-48: the pair the function returns
discrete_time_fourier_transform(seq, n) ==
    [omega |-> OmegaGrid(n),
     frequency_domain_signal |-> MatVec(twiddle(Len(seq), n), AsArray(seq), n - 1)]

(***************************************************************************)
(* The script: lines 64-69, and callers of the function.                   *)
(***************************************************************************)
VARIABLES
    n_points,                \* line 38, the fixed number of frequency samples
    normalise,               \* line 56
    heap,                    \* the arrays alive, by reference
    time_domain_sequence,    \* line 64, a reference
    omega,                   \* line 67, a reference, or Unbound
    frequency_domain_signal, \* line 67, a reference, or Unbound
    pc,                      \* "call", "returned", "done" or "raised"
    exception,               \* the exception raised, or None
    resolution,              \* the further arguments a caller passed: <<>> or <<r>>
    log,                     \* per completed call: its argument and its result
    operands                 \* the linearity scenario's <<x, y, a, b>>, or <<>>

vars == <<n_points, normalise, heap, time_domain_sequence, omega,
          frequency_domain_signal, pc, exception, resolution, log, operands>>

RECURSIVE SeqsOf(_, _)
SeqsOf(S, len) ==
    IF len = 0 THEN {<<>>}
    ELSE {Append(s, v) : s \in SeqsOf(S, len - 1), v \in S}

Inputs == UNION {SeqsOf(Samples, len) : len \in 0..MaxLen}
Resolutions == {0, 2, 3}

\* a sequence of integers as an array
ArrayOf(s, n) == [i \in 1..Len(s) |-> NumInt(s[i], n - 1)]

\* a reference not in use
NewRef(used) == CHOOSE r \in 1..(Cardinality(used) + 1) : r \notin used

Init ==
    /\ n_points \in 2..MaxPoints
    /\ normalise \in BOOLEAN
    /\ \E s \in Inputs : heap = (1 :> ArrayOf(s, n_points))
    /\ time_domain_sequence = 1
    /\ omega = Unbound
    /\ frequency_domain_signal = Unbound
    /\ pc = "call"
    /\ exception = None
    /\ resolution = <<>>
    /\ log = <<>>
    /\ operands = <<>>

\* line 67: omega, frequency_domain_signal = discrete_time_fourier_transform(...)
Call ==
    /\ pc = "call"
    /\ LET x == heap[time_domain_sequence]
           r == discrete_time_fourier_transform(x, n_points)
           ro == NewRef(DOMAIN heap)
           rs == NewRef(DOMAIN heap \cup {ro})
           \* the arrays bound to omega and frequency_domain_signal before the
           \* call are unreachable once the names are bound again
           h == [q \in {time_domain_sequence, ro, rs} |->
                    IF q = rs THEN r.frequency_domain_signal
                    ELSE IF q = ro THEN r.omega
                    ELSE heap[q]]
       IN  /\ heap' = h
           /\ omega' = ro
           /\ frequency_domain_signal' = rs
           /\ log' = Append(log, [input |-> x,
                                  omega |-> h[ro],
                                  spectrum |-> h[rs]])
    /\ pc' = "returned"
    /\ UNCHANGED <<n_points, normalise, time_domain_sequence, exception,
                   resolution, operands>>

\* line 14: the function takes one positional argument; a call that passes a
\* resolution as well raises TypeError before the body runs
CallWithResolution(r) ==
    /\ pc = "call"
    /\ resolution' = <<r>>
    /\ exception' = "TypeError"
    /\ pc' = "raised"
    /\ UNCHANGED <<n_points, normalise, heap, time_domain_sequence, omega,
                   frequency_domain_signal, log, operands>>

\* np.abs(a), each magnitude squared
AbsArr(a, n) == [i \in 1..Len(a) |-> AbsSq(a[i], n - 1)]

\* np.amax(m) of a non-empty array: NaN when a NaN is in it
Amax(m, n) ==
    IF \E i \in 1..Len(m) : m[i] = QNaN THEN QNaN
    ELSE m[CHOOSE i \in 1..Len(m) :
             \A k \in 1..Len(m) : QLeq(m[k], m[i], Radicand(n - 1))]

\* a /= s, s given by its square: 0/0 is NaN
DivideBy(a, ssq, n) ==
    [i \in 1..Len(a) |->
        IF IsNaN(a[i]) \/ ssq = QNaN \/ ssq = QZero THEN NaN
        ELSE [num |-> a[i].num, den |-> QMul(a[i].den, ssq, Radicand(n - 1))]]

\* the division applied to the input sequence
NormaliseTargetInput == time_domain_sequence

\* line 69: the array divided in place
NormaliseTarget == frequency_domain_signal

\* lines 68-69: if normalise: frequency_domain_signal /= np.amax(np.abs(...))
Normalise ==
    /\ pc = "returned"
    /\ normalise
    /\ LET a == heap[NormaliseTarget]
       IN  IF a = <<>>
           THEN /\ exception' = "ValueError"
                /\ pc' = "raised"
                /\ heap' = heap
           ELSE /\ heap' = [heap EXCEPT ![NormaliseTarget] =
                               DivideBy(a, Amax(AbsArr(a, n_points), n_points), n_points)]
                /\ pc' = "done"
                /\ exception' = exception
    /\ UNCHANGED <<n_points, normalise, time_domain_sequence, omega,
                   frequency_domain_signal, resolution, log, operands>>

\* line 68: normalise is False
SkipNormalise ==
    /\ pc = "returned"
    /\ ~normalise
    /\ pc' = "done"
    /\ UNCHANGED <<n_points, normalise, heap, time_domain_sequence, omega,
                   frequency_domain_signal, exception, resolution, log, operands>>

\* a caller that runs lines 67-69 again on the same sequence
CallAgain ==
    /\ pc = "done"
    /\ Len(log) < MaxCalls
    /\ pc' = "call"
    /\ UNCHANGED <<n_points, normalise, heap, time_domain_sequence, omega,
                   frequency_domain_signal, exception, resolution, log, operands>>

Next ==
    \/ Call
    \/ \E r \in Resolutions : CallWithResolution(r)
    \/ Normalise
    \/ SkipNormalise
    \/ CallAgain

Spec == Init /\ [][Next]_vars

(***************************************************************************)
(* A caller that transforms x, then y, then a*x + b*y (lines 64 and 67,    *)
(* three times over), without normalising.                                 *)
(***************************************************************************)
LinInputs == UNION {SeqsOf(LinSamples, len) : len \in 0..LinLen}

\* a*x + b*y, sample by sample
LinComb(a, x, b, y) == [i \in 1..Len(x) |-> a * x[i] + b * y[i]]

InitLinear ==
    /\ n_points \in 2..MaxPoints
    /\ normalise = FALSE
    /\ \E x \in LinInputs, y \in LinInputs, a \in Scalars, b \in Scalars :
          /\ Len(x) = Len(y)
          /\ operands = <<x, y, a, b>>
          /\ heap = (1 :> ArrayOf(x, n_points))
    /\ time_domain_sequence = 1
    /\ omega = Unbound
    /\ frequency_domain_signal = Unbound
    /\ pc = "call"
    /\ exception = None
    /\ resolution = <<>>
    /\ log = <<>>

\* line 64 again: time_domain_sequence is bound to the next operand
LinRebind ==
    /\ pc = "returned"
    /\ Len(log) < 3
    /\ LET nxt == IF Len(log) = 1 THEN operands[2]
                  ELSE LinComb(operands[3], operands[1], operands[4], operands[2])
           rt == NewRef(DOMAIN heap)
       IN  /\ heap' = [q \in {rt, omega, frequency_domain_signal} |->
                          IF q = rt THEN ArrayOf(nxt, n_points) ELSE heap[q]]
           /\ time_domain_sequence' = rt
    /\ pc' = "call"
    /\ UNCHANGED <<n_points, normalise, omega, frequency_domain_signal,
                   exception, resolution, log, operands>>

NextLinear ==
    \/ Call
    \/ LinRebind

SpecLinear == InitLinear /\ [][NextLinear]_vars

(***************************************************************************)
(* The arrays the caller holds.                                            *)
(***************************************************************************)
InputArray == heap[time_domain_sequence]
ReturnedOmega == heap[omega]
ReturnedSpectrum == heap[frequency_domain_signal]

(***************************************************************************)
(* Properties.                                                             *)
(***************************************************************************)
\* the sum over n of x[n]*exp(-j*w*n), from the samples x and one frequency w
SumAt(x, w, n) ==
    NumSum([m \in 1..Len(x) |->
              NumMul(x[m], ExpJ(RatNeg(RatScale(m - 1, w)), n - 1), n - 1)], n - 1)

IsReal(u, n) == NumConj(u, n - 1) = u

\* C1: after a call, every element k of the returned spectrum is the sum over
\* n of x[n]*exp(-j*frequencies[k]*n), frequencies[k] being element k of the
\* returned frequency array.
C1_IndexAligned ==
    pc = "returned" =>
        \A k \in 1..n_points :
            ReturnedSpectrum[k] = SumAt(InputArray, ReturnedOmega[k], n_points)

\* a call returned a spectrum that is not real, from two samples or more
C1_Witness ==
    /\ pc = "returned"
    /\ Len(InputArray) >= 2
    /\ \E k \in 1..n_points : ~IsReal(ReturnedSpectrum[k], n_points)

C3_RejectsInvalidInput ==
    /\ (pc # "call" /\ InputArray = <<>>) =>
           (exception = "InvalidInput" /\ omega = Unbound)
    /\ (resolution # <<>> /\ resolution[1] < 1) =>
           (exception = "InvalidInput" /\ omega = Unbound)

\* two angles equal up to a multiple of 2*pi
RatEqMod2(x, y) == LET d == RatSub(x, y) IN d.d = 1 /\ d.n % 2 = 0

\* C4: when n_points equals the length M of the sequence, the returned
\* frequencies are the M DFT bin frequencies 2*pi*m/M (modulo 2*pi) and each
\* spectrum element is the DFT value of its bin.
C4_EqualsDFT ==
    (pc = "returned" /\ Len(InputArray) = n_points) =>
        LET M == n_points
            IsBin(k, m) ==
                /\ RatEqMod2(ReturnedOmega[k], Rat(2 * m, M))
                /\ ReturnedSpectrum[k] = SumAt(InputArray, Rat(2 * m, M), n_points)
        IN  /\ \A m \in 0..(M - 1) : \E k \in 1..M : IsBin(k, m)
            /\ \A k \in 1..M : \E m \in 0..(M - 1) : IsBin(k, m)

\* C5: the returned frequencies are -pi + k*2*pi/(N-1): strictly increasing,
\* evenly spaced, from -pi to pi, and symmetric about zero.
C5_FrequencyGrid ==
    pc = "returned" =>
        LET F == ReturnedOmega
            N == n_points
        IN  /\ Len(F) = N
            /\ \A k \in 1..N : F[k] = RatAdd(RatNeg(Pi), Rat(2 * (k - 1), N - 1))
            /\ \A k \in 1..(N - 1) : RatLess(F[k], F[k + 1])
            /\ \A k \in 1..(N - 1) : RatSub(F[k + 1], F[k]) = Rat(2, N - 1)
            /\ F[1] = RatNeg(Pi)
            /\ F[N] = Pi
            /\ \A k \in 1..N : F[k] = RatNeg(F[N + 1 - k])

\* a call returned five frequencies, the second of them -pi/2
C5_Witness ==
    /\ pc = "returned"
    /\ n_points = 5
    /\ ReturnedOmega[2] = Rat(-1, 2)

\* C7: for a real-valued sequence the returned spectrum is conjugate-symmetric:
\* element k is the conjugate of element N-1-k.
C7_ConjugateSymmetric ==
    (pc = "returned" /\ \A i \in 1..Len(InputArray) : IsReal(InputArray[i], n_points)) =>
        \A k \in 1..n_points :
            ReturnedSpectrum[k] =
                NumConj(ReturnedSpectrum[n_points + 1 - k], n_points - 1)

\* a call on real samples returned a spectrum with an element that is not real
C7_Witness ==
    /\ pc = "returned"
    /\ Len(InputArray) >= 2
    /\ \A i \in 1..Len(InputArray) : IsReal(InputArray[i], n_points)
    /\ \E k \in 1..n_points :
          /\ ~IsReal(ReturnedSpectrum[k], n_points)
          /\ ReturnedSpectrum[k] # ReturnedSpectrum[n_points + 1 - k]

IsImpulse(x, n) ==
    /\ Len(x) >= 1
    /\ x[1] = NumInt(1, n - 1)
    /\ \A i \in 2..Len(x) : x[i] = NumInt(0, n - 1)

\* C8: the spectrum of a unit impulse (first sample 1, the others 0) is 1 at
\* every frequency.
C8_ImpulseIsFlat ==
    (pc = "returned" /\ IsImpulse(InputArray, n_points)) =>
        \A k \in 1..n_points : ReturnedSpectrum[k] = NumInt(1, n_points - 1)

\* a call on [1, 0, 0, 0] with five frequencies returned
C8_Witness ==
    /\ pc = "returned"
    /\ n_points = 5
    /\ InputArray = ArrayOf(<<1, 0, 0, 0>>, 5)
    /\ Len(ReturnedSpectrum) = 5

\* C6: the spectrum of a*x + b*y is a times the spectrum of x plus b times the
\* spectrum of y at every index, and the three calls return one frequency grid.
C6_Linear ==
    Len(log) = 3 =>
        LET a == NumInt(operands[3], n_points - 1)
            b == NumInt(operands[4], n_points - 1)
        IN  /\ \A k \in 1..n_points :
                  log[3].spectrum[k] =
                      NumAdd(NumMul(a, log[1].spectrum[k], n_points - 1),
                             NumMul(b, log[2].spectrum[k], n_points - 1))
            /\ log[2].omega = log[1].omega
            /\ log[3].omega = log[1].omega

\* the three calls were made, on [0, 1], on [1, 1] and on 2*[0, 1] - [1, 1]
C6_Witness ==
    /\ Len(log) = 3
    /\ n_points = 4
    /\ operands = << <<0, 1>>, <<1, 1>>, 2, -1 >>
    /\ log[1].input = ArrayOf(<<0, 1>>, 4)
    /\ log[2].input = ArrayOf(<<1, 1>>, 4)
    /\ log[3].input = ArrayOf(<<-1, 1>>, 4)
    /\ log[3].spectrum # log[1].spectrum

\* C9: a call leaves the caller's sequence as it was, and every call returns
\* what the first call on that sequence returned, also after the caller has
\* normalised an earlier result in place.
C9_Pure ==
    Len(log) >= 1 =>
        /\ InputArray = log[1].input
        /\ \A i \in 1..Len(log) : log[i] = log[1]

\* a second call has returned and its result was normalised in place, as the
\* first one's was
C9_Witness ==
    /\ Len(log) = 2
    /\ normalise
    /\ pc = "done"
    /\ Len(InputArray) >= 2
    /\ ReturnedSpectrum # log[2].spectrum

\* the largest magnitude of the array is 1 and no magnitude exceeds 1
MaxAbsIsOne(a, n) ==
    /\ \E k \in 1..Len(a) : AbsSq(a[k], n - 1) = QOne
    /\ \A k \in 1..Len(a) :
          /\ AbsSq(a[k], n - 1) # QNaN
          /\ QLeq(AbsSq(a[k], n - 1), QOne, Radicand(n - 1))

\* C10: with the normalise flag set, the spectrum of any call (on a non-empty
\* sequence) ends up divided
\* by its largest magnitude, so that its largest magnitude is 1 and no
\* magnitude exceeds 1; with the flag not set it is left as returned.
C10_NormalisedToOne ==
    /\ (pc = "done" /\ normalise /\ Len(InputArray) >= 1) =>
           MaxAbsIsOne(ReturnedSpectrum, n_points)
    /\ (pc = "done" /\ ~normalise /\ Len(InputArray) >= 1) =>
           ReturnedSpectrum = log[Len(log)].spectrum
====
